---- MODULE Spec2Model ----
(***************************************************************************)
(* weavesolve: a word-ladder solver.  main builds the graph of dictionary  *)
(* words that differ by one letter (build_graph_from_dict), runs a         *)
(* breadth-first search from the start word (bfs) and walks the parent map *)
(* back from the goal (find_shortest_path).                                *)
(*                                                                         *)
(* A word is a sequence of one-character strings.  The graph and the       *)
(* parent map are functions whose DOMAIN is the key set of the HashMap.    *)
(***************************************************************************)
EXTENDS Integers, Sequences, FiniteSets, TLC

\* ---------------------------------------------------------------- inputs

\* The dictionary holds 4-letter words (src/main.rs:79).
WordLen == 4

\* Longest dictionary drawn by Init (besides ExampleDict).
MaxDict == 4

\* Longest dictionary drawn by FairInit (besides ExampleDict).
MaxFairDict == 3

cold == <<"c", "o", "l", "d">>
cord == <<"c", "o", "r", "d">>
card == <<"c", "a", "r", "d">>
ward == <<"w", "a", "r", "d">>
warm == <<"w", "a", "r", "m">>
word == <<"w", "o", "r", "d">>
curd == <<"c", "u", "r", "d">>

Range(s) == {s[k] : k \in DOMAIN s}

\* The dictionary of the spec's worked example.
ExampleDict == <<cold, cord, card, ward, warm>>

\* Words the bounded dictionaries are drawn from: the triangle
\* cord - card - curd and the square cord - card - ward - word.
Vocabulary == {cord, card, curd, ward, word}

\* Words the command line may name as start or stop.
QueryWords == Vocabulary \cup Range(ExampleDict)

DictsUpTo(n) == UNION {[1..k -> Vocabulary] : k \in 0..n}

Dicts == DictsUpTo(MaxDict) \cup {ExampleDict}

\* ---------------------------------------------------------------- helpers

Min(a, b) == IF a < b THEN a ELSE b

\* Mutant of Reverse: the collected words stay in goal-to-start order.
NotReversed(s) == s

\* path.into_iter().rev().collect()
Reverse(s) == [k \in 1..Len(s) |-> s[Len(s) + 1 - k]]

\* HashMap::new()
EmptyMap == [k \in {} |-> <<>>]

\* HashMap::insert: sets the value of key, replacing an old one.
MapInsert(m, key, val) ==
    [k \in DOMAIN m \cup {key} |-> IF k = key THEN val ELSE m[k]]

\* Mutants of is_one_char_diff: the final comparison is off by one side.
is_one_char_diff_at_least(s1, s2) ==
    LET counter == Cardinality({k \in 1..Min(Len(s1), Len(s2)) : s1[k] # s2[k]})
    IN  counter >= 1

is_one_char_diff_at_most(s1, s2) ==
    LET counter == Cardinality({k \in 1..Min(Len(s1), Len(s2)) : s1[k] # s2[k]})
    IN  counter <= 1

\* is_one_char_diff: count the differing positions of the zipped characters
\* (zip stops at the shorter string) and compare the count with 1.
is_one_char_diff(s1, s2) ==
    LET counter == Cardinality({k \in 1..Min(Len(s1), Len(s2)) : s1[k] # s2[k]})
    IN  counter = 1

\* Mutant of PushConnection: the connection is inserted at the front.
PushConnectionFront(g, a, b) ==
    IF a \in DOMAIN g THEN MapInsert(g, a, <<b>> \o g[a])
                      ELSE MapInsert(g, a, <<b>>)

\* graph.entry(a).and_modify(|c| c.push(b)).or_insert(vec![b])
PushConnection(g, a, b) ==
    IF a \in DOMAIN g THEN MapInsert(g, a, Append(g[a], b))
                      ELSE MapInsert(g, a, <<b>>)

\* Mutant of InsertPair: the second entry is keyed by dict[i] again.
InsertPairSameKey(g, a, b) == PushConnection(PushConnection(g, a, b), a, a)

\* Mutant of InsertPair: only the forward direction is recorded.
InsertPairOneWay(g, a, b) == PushConnection(g, a, b)

\* The body of the `if is_one_char_diff` in build_graph_from_dict: both
\* directions are recorded.
InsertPair(g, a, b) == PushConnection(PushConnection(g, a, b), b, a)

\* Mutant of enqueue: the value is pushed at the front of the deque.
enqueue_front(qq, val) == <<val>> \o qq

\* Queue::enqueue: push_back.
enqueue(qq, val) == Append(qq, val)

\* Mutant of VisitEntries: the arguments of parent_map.insert are swapped,
\* so the dequeued word is given the entry as its parent.
RECURSIVE VisitEntriesSwapped(_, _, _, _, _)
VisitEntriesSwapped(entries, vv, vis, pm, qq) ==
    IF entries = <<>>
    THEN [visited |-> vis, parent_map |-> pm, q |-> qq]
    ELSE LET entry == Head(entries)
         IN  IF entry \in vis
             THEN VisitEntriesSwapped(Tail(entries), vv, vis, pm, qq)
             ELSE VisitEntriesSwapped(Tail(entries), vv, vis \cup {entry},
                                      MapInsert(pm, vv, entry), Append(qq, entry))

\* Mutant of VisitEntries: the entry is given its parent and enqueued but is
\* not marked as visited.
RECURSIVE VisitEntriesNoMark(_, _, _, _, _)
VisitEntriesNoMark(entries, vv, vis, pm, qq) ==
    IF entries = <<>>
    THEN [visited |-> vis, parent_map |-> pm, q |-> qq]
    ELSE LET entry == Head(entries)
         IN  IF entry \in vis
             THEN VisitEntriesNoMark(Tail(entries), vv, vis, pm, qq)
             ELSE VisitEntriesNoMark(Tail(entries), vv, vis,
                                     MapInsert(pm, entry, vv), Append(qq, entry))

\* Mutant of VisitEntries: the parent is recorded before the visited test,
\* so a later word overwrites the parent of a word already discovered.
RECURSIVE VisitEntriesOverwrite(_, _, _, _, _)
VisitEntriesOverwrite(entries, vv, vis, pm, qq) ==
    IF entries = <<>>
    THEN [visited |-> vis, parent_map |-> pm, q |-> qq]
    ELSE LET entry == Head(entries)
         IN  IF entry \in vis
             THEN VisitEntriesOverwrite(Tail(entries), vv, vis,
                                        MapInsert(pm, entry, vv), qq)
             ELSE VisitEntriesOverwrite(Tail(entries), vv, vis \cup {entry},
                                        MapInsert(pm, entry, vv), Append(qq, entry))

\* The inner `for &entry in graph[v].iter()` loop of bfs, run to its end.
RECURSIVE VisitEntries(_, _, _, _, _)
VisitEntries(entries, vv, vis, pm, qq) ==
    IF entries = <<>>
    THEN [visited |-> vis, parent_map |-> pm, q |-> qq]
    ELSE LET entry == Head(entries)
         IN  IF entry \in vis
             THEN VisitEntries(Tail(entries), vv, vis, pm, qq)
             ELSE VisitEntries(Tail(entries), vv, vis \cup {entry},
                               MapInsert(pm, entry, vv), enqueue(qq, entry))

\* ---------------------------------------------------------------- state

VARIABLES
    dict,        \* DICT, the ordered dictionary
    graph,       \* Graph: word -> Vec of connected words
    i, j,        \* loop indices of build_graph_from_dict (0-based)
    pc,          \* "build", "call", "bfs", "walk", "done", "exit", "panic"
    start, stop, \* cli.start, cli.stop
    q,           \* bfs: the Queue
    visited,     \* bfs: the HashSet
    parent_map,  \* bfs: word -> parent word
    v,           \* bfs: the word dequeued last
    ptr, path,   \* find_shortest_path: the walk back from the goal
    run,         \* 1 in the first execution, 2 in the repeated one
    first        \* outcome of the first execution (in the repeated one)

vars == <<dict, graph, i, j, pc, start, stop, q, visited, parent_map, v,
          ptr, path, run, first>>

NoWord == <<>>

\* What the caller of the search observes: the returned path, the word named
\* by the invalid-word exit, or the panic.
Outcome == [kind |-> pc,
            path |-> IF pc = "done" THEN path ELSE <<>>,
            word |-> IF pc = "exit" THEN v ELSE NoWord]

NoOutcome == [kind |-> "none", path |-> <<>>, word |-> NoWord]

Terminal == pc \in {"done", "exit", "panic"}

Init ==
    /\ dict \in Dicts
    /\ graph = EmptyMap
    /\ i = 0
    /\ j = 1
    /\ pc = "build"
    /\ start = NoWord
    /\ stop = NoWord
    /\ q = <<>>
    /\ visited = {}
    /\ parent_map = EmptyMap
    /\ v = NoWord
    /\ ptr = NoWord
    /\ path = <<>>
    /\ run = 1
    /\ first = NoOutcome

searchVars == <<q, visited, parent_map, v, ptr, path>>

\* Mutant of Connections: the connections are kept in a hashed collection
\* whose iteration order changes from one execution to the next.
ConnectionsHashOrder(g, w) == IF run = 2 THEN Reverse(g[w]) ELSE g[w]

\* graph[v].iter(): the connections of w in the order they were pushed.
Connections(g, w) == g[w]

\* Mutant of FinishPath: the final push of start is missing.
FinishPathNoStart(p, s) == Reverse(p)

\* path.push(start), then the reversal of the collected words.
FinishPath(p, s) == Reverse(Append(p, s))

\* ---------------------------------------------------------------- build_graph_from_dict

\* One pass of the inner loop body: examine the pair (dict[i], dict[j]).
ExaminePair ==
    /\ pc = "build"
    /\ j < Len(dict)
    /\ graph' = IF is_one_char_diff(dict[i + 1], dict[j + 1])
                THEN InsertPair(graph, dict[i + 1], dict[j + 1])
                ELSE graph
    /\ IF j + 1 < Len(dict)
       THEN i' = i /\ j' = j + 1
       ELSE i' = i + 1 /\ j' = i + 2
    /\ UNCHANGED <<dict, pc, start, stop, searchVars, run, first>>

\* No pair is left: the loops end and the graph is returned to main.
BuildReturn ==
    /\ pc = "build"
    /\ j >= Len(dict)
    /\ pc' = "call"
    /\ UNCHANGED <<dict, graph, i, j, start, stop, searchVars, run, first>>

\* ---------------------------------------------------------------- bfs

\* The state of bfs before its loop, for root s.
EnterBfs(s, e) ==
    /\ start' = s
    /\ stop' = e
    /\ q' = enqueue(<<>>, s)
    /\ visited' = {s}
    /\ parent_map' = EmptyMap
    /\ pc' = "bfs"
    /\ UNCHANGED <<dict, graph, i, j, v, ptr, path, run, first>>

\* main calls find_shortest_path with the command line's two words.
Call ==
    /\ pc = "call"
    /\ run = 1
    /\ \E s \in QueryWords, e \in QueryWords : EnterBfs(s, e)

\* v == goal: bfs returns (v, parent_map) and the walk back begins.
BfsGoal ==
    /\ pc = "bfs"
    /\ q # <<>>
    /\ Head(q) = stop
    /\ v' = Head(q)
    /\ q' = Tail(q)
    /\ ptr' = Head(q)
    /\ path' = <<>>
    /\ pc' = "walk"
    /\ UNCHANGED <<dict, graph, i, j, start, stop, visited, parent_map, run, first>>

\* graph.get(v) is None: "... is not a valid word!" and exit(1).
BfsInvalid ==
    /\ pc = "bfs"
    /\ q # <<>>
    /\ Head(q) # stop
    /\ Head(q) \notin DOMAIN graph
    /\ v' = Head(q)
    /\ q' = Tail(q)
    /\ pc' = "exit"
    /\ UNCHANGED <<dict, graph, i, j, start, stop, visited, parent_map, ptr, path, run, first>>

\* Mutant of BfsExpand: the front word is read but not removed from the queue.
BfsExpandPeek ==
    /\ pc = "bfs"
    /\ q # <<>>
    /\ Head(q) # stop
    /\ Head(q) \in DOMAIN graph
    /\ LET r == VisitEntries(Connections(graph, Head(q)), Head(q), visited, parent_map, q)
       IN  /\ visited' = r.visited
           /\ parent_map' = r.parent_map
           /\ q' = r.q
    /\ v' = Head(q)
    /\ UNCHANGED <<dict, graph, i, j, pc, start, stop, ptr, path, run, first>>

\* Otherwise the unvisited connections of v are marked, given v as parent
\* and enqueued.
BfsExpand ==
    /\ pc = "bfs"
    /\ q # <<>>
    /\ Head(q) # stop
    /\ Head(q) \in DOMAIN graph
    /\ LET r == VisitEntries(Connections(graph, Head(q)), Head(q), visited, parent_map, Tail(q))
       IN  /\ visited' = r.visited
           /\ parent_map' = r.parent_map
           /\ q' = r.q
    /\ v' = Head(q)
    /\ UNCHANGED <<dict, graph, i, j, pc, start, stop, ptr, path, run, first>>

\* The queue is empty: the loop ends and control reaches unreachable!().
BfsExhausted ==
    /\ pc = "bfs"
    /\ q = <<>>
    /\ pc' = "panic"
    /\ UNCHANGED <<dict, graph, i, j, start, stop, searchVars, run, first>>

\* ---------------------------------------------------------------- find_shortest_path

\* while ptr != start { path.push(ptr); ptr = parent_map[ptr]; }
\* Indexing a HashMap with a missing key panics.
WalkStep ==
    /\ pc = "walk"
    /\ ptr # start
    /\ path' = Append(path, ptr)
    /\ IF ptr \in DOMAIN parent_map
       THEN ptr' = parent_map[ptr] /\ pc' = "walk"
       ELSE ptr' = ptr /\ pc' = "panic"
    /\ UNCHANGED <<dict, graph, i, j, start, stop, q, visited, parent_map, v, run, first>>

\* path.push(start); the reversed path is returned.
WalkReturn ==
    /\ pc = "walk"
    /\ ptr = start
    /\ path' = FinishPath(path, start)
    /\ pc' = "done"
    /\ UNCHANGED <<dict, graph, i, j, start, stop, q, visited, parent_map, v, ptr, run, first>>

Next ==
    \/ ExaminePair
    \/ BuildReturn
    \/ Call
    \/ BfsGoal
    \/ BfsInvalid
    \/ BfsExpand
    \/ BfsExhausted
    \/ WalkStep
    \/ WalkReturn

Spec == Init /\ [][Next]_vars

\* The program is one thread that runs without suspension points: whenever a
\* step is possible, a step is taken.  The runs are those of Spec over the
\* dictionaries of at most MaxFairDict words and the example dictionary.
FairInit == Init /\ dict \in DictsUpTo(MaxFairDict) \cup {ExampleDict}

FairSpec == FairInit /\ [][Next]_vars /\ WF_vars(Next)

\* ---------------------------------------------------------------- a second execution

\* The program is executed again with the same dictionary and the same two
\* words; the outcome of the first execution is kept for comparison.
Rerun ==
    /\ Terminal
    /\ run = 1
    /\ first' = Outcome
    /\ run' = 2
    /\ graph' = EmptyMap
    /\ i' = 0
    /\ j' = 1
    /\ pc' = "build"
    /\ q' = <<>>
    /\ visited' = {}
    /\ parent_map' = EmptyMap
    /\ v' = NoWord
    /\ ptr' = NoWord
    /\ path' = <<>>
    /\ UNCHANGED <<dict, start, stop>>

\* main of the second execution calls find_shortest_path with the same words.
CallAgain ==
    /\ pc = "call"
    /\ run = 2
    /\ EnterBfs(start, stop)

NextTwice ==
    \/ Next
    \/ Rerun
    \/ CallAgain

SpecTwice == Init /\ [][NextTwice]_vars

\* ---------------------------------------------------------------- reference notions

\* The words recorded as connected to w in the graph.
Adj(w) == IF w \in DOMAIN graph THEN Range(graph[w]) ELSE {}

\* The words at most n edges away from w.
RECURSIVE Ball(_, _)
Ball(w, n) ==
    IF n = 0 THEN {w}
    ELSE LET b == Ball(w, n - 1) IN b \cup UNION {Adj(x) : x \in b}

\* The words reachable from w.
Reach(w) == Ball(w, Cardinality(DOMAIN graph))

\* The number of edges of a shortest ladder from a to b (b reachable from a).
Dist(a, b) == CHOOSE n \in 0..Cardinality(DOMAIN graph) :
                  /\ b \in Ball(a, n)
                  /\ \A m \in 0..(n - 1) : b \notin Ball(a, m)

\* a and b differ at one position and agree at all the others.
DifferInExactlyOne(a, b) ==
    \E k \in 1..WordLen : a[k] # b[k] /\ \A m \in (1..WordLen) \ {k} : a[m] = b[m]

Built == pc # "build"

\* ---------------------------------------------------------------- claims

\* C1: when stop is reachable from start in the built graph, the search
\* returns a path, and its number of edges is the graph distance from start to
\* stop: no shorter ladder exists.
C1_ShortestPath ==
    (Terminal /\ stop \in Reach(start)) =>
        (pc = "done" /\ Len(path) - 1 = Dist(start, stop))

\* C1 witness: a returned two-edge path where two shortest ladders exist.
C1_Witness ==
    /\ pc = "done"
    /\ Len(path) = 3
    /\ Cardinality(Adj(start) \cap Adj(stop)) >= 2

\* C2: in the built graph, for all indices a # b, each of dict[a], dict[b] is
\* in the other's adjacency list if the two words differ in exactly one
\* position, and neither is in the other's list otherwise.
C2_EdgeIffOneDiff ==
    Built =>
        \A a \in 1..Len(dict), b \in 1..Len(dict) :
            a # b =>
                IF DifferInExactlyOne(dict[a], dict[b])
                THEN dict[b] \in Adj(dict[a]) /\ dict[a] \in Adj(dict[b])
                ELSE dict[b] \notin Adj(dict[a]) /\ dict[a] \notin Adj(dict[b])

\* C2 witness: a built graph over a dictionary with a pair one letter apart,
\* a pair two letters apart and a repeated word.
C2_Witness ==
    /\ pc = "call"
    /\ \E a, b \in 1..Len(dict) : DifferInExactlyOne(dict[a], dict[b])
    /\ \E a, b \in 1..Len(dict) :
           dict[a] # dict[b] /\ ~DifferInExactlyOne(dict[a], dict[b])
    /\ \E a, b \in 1..Len(dict) : a # b /\ dict[a] = dict[b]

\* C3: a returned path begins with start, ends with stop, and each word of it
\* has the next one in its adjacency list.
C3_PathValid ==
    pc = "done" =>
        /\ Len(path) >= 1
        /\ path[1] = start
        /\ path[Len(path)] = stop
        /\ \A k \in 1..(Len(path) - 1) : path[k + 1] \in Adj(path[k])

\* C3 witness: a returned path of at least three words.
C3_Witness == pc = "done" /\ Len(path) >= 3 /\ path[2] = card

\* C4 (as claimed): when start is a node of the graph and stop is not
\* reachable from it, the search does not end in the panic.
C4_NoPathReported ==
    (Terminal /\ start \in DOMAIN graph /\ stop \notin Reach(start)) =>
        pc # "panic"

\* C5 (as claimed): when start is not a dictionary word, the search ends in
\* the invalid-word exit naming start.
C5_InvalidStart ==
    (Terminal /\ start \notin Range(dict)) => (pc = "exit" /\ v = start)

\* C6 (as claimed): when start is a node of the graph and stop is not, the
\* search ends in the invalid-word exit.
C6_InvalidStop ==
    (Terminal /\ start \in DOMAIN graph /\ stop \notin DOMAIN graph) =>
        pc = "exit"

\* C7: when start = stop the first dequeued word passes the goal test: the
\* search never reaches the adjacency lookup, the parent map stays empty, the
\* walk pushes nothing but start and the returned path is <<start>>.
C7_StartIsStop ==
    (pc \in {"walk", "done", "exit", "panic"} /\ start = stop) =>
        /\ pc \in {"walk", "done"}
        /\ v = start
        /\ DOMAIN parent_map = {}
        /\ visited = {start}
        /\ pc = "walk" => (ptr = start /\ path = <<>>)
        /\ pc = "done" => path = <<start>>

\* C7 witness: the one-word path returned for a word that is no graph node.
C7_Witness ==
    pc = "done" /\ start = stop /\ start \notin DOMAIN graph /\ path = <<start>>

\* C8: at every point of the construction and afterwards, b is in a's
\* adjacency list iff a is in b's.
C8_Symmetric ==
    \A a \in DOMAIN graph : \A b \in Range(graph[a]) : a \in Adj(b)

\* C8 witness: the construction is under way and has recorded connections.
C8_Witness == pc = "build" /\ i >= 1 /\ j < Len(dict) /\ DOMAIN graph # {}

C10_Example ==
    (Terminal /\ dict = ExampleDict /\ start = cold /\ stop = warm) =>
        (pc = "done" /\ path = <<cold, cord, card, ward, warm>>)

\* C10 witness: the example search has returned.
C10_Witness ==
    pc = "done" /\ dict = ExampleDict /\ start = cold /\ stop = warm /\ Len(path) = 5

\* The word reached from k by following at most n parent pointers, stopping
\* at start; NoWord when the chain breaks or is longer than n.
RECURSIVE Climb(_, _)
Climb(k, n) ==
    IF k = start THEN start
    ELSE IF n = 0 \/ k \notin DOMAIN parent_map THEN NoWord
    ELSE Climb(parent_map[k], n - 1)

\* The parent map is a tree rooted at start whose edges are graph edges.
ParentTree ==
    /\ start \notin DOMAIN parent_map
    /\ \A k \in DOMAIN parent_map :
           /\ parent_map[k] \in Adj(k)
           /\ parent_map[k] \in visited
           /\ Climb(k, Cardinality(DOMAIN parent_map)) = start
    /\ pc = "walk" => (ptr = start \/ ptr \in DOMAIN parent_map)
    /\ pc # "panic" \/ ptr = NoWord

\* A step keeps every key with its parent, and gives a new key a parent that
\* was visited before the key was.
ParentStep ==
    /\ \A k \in DOMAIN parent_map :
           k \in DOMAIN parent_map' /\ parent_map'[k] = parent_map[k]
    /\ \A k \in DOMAIN parent_map' \ DOMAIN parent_map :
           k \notin visited /\ parent_map'[k] \in visited

\* C11: in every state of a bfs run the parent map is a tree rooted at start:
\* start is no key, the parent of a key is a graph neighbour of the key and
\* was visited before it, the parent pointers lead from every key to start,
\* no key is overwritten, and the walk back never meets a missing key.
C11_ParentTree == []ParentTree /\ [][ParentStep]_vars

\* C11 witness: the walk is under way over a parent map with a key two
\* parent pointers away from start.
C11_Witness ==
    /\ pc = "walk"
    /\ ptr # start
    /\ path # <<>>
    /\ \E k \in DOMAIN parent_map :
           parent_map[k] # start /\ parent_map[k] \in DOMAIN parent_map

\* C12 (as claimed): with a dictionary word as start and stop # start, the
\* search never ends in the invalid-word exit.
C12_DictWordNeverInvalid ==
    (Terminal /\ start \in Range(dict) /\ stop # start) => pc # "exit"

\* No word occurs twice in the sequence s.
NoRepeat(s) == \A a, b \in DOMAIN s : a # b => s[a] # s[b]

\* The words a bfs iteration has pushed behind the ones that were waiting.
Enqueued == SubSeq(q', Len(q), Len(q'))

\* Every waiting word is marked, and no word waits twice.
QueueVisited == Range(q) \subseteq visited /\ NoRepeat(q)

\* visited grows exactly by the words a step enqueues: the root when bfs
\* begins, the words pushed by an iteration, nothing in any other step; a
\* word that is enqueued was not marked before, and the dequeued word does
\* not wait again.
VisitedStep ==
    /\ (pc = "call" /\ pc' = "bfs") =>
           (q' = <<start'>> /\ visited' = {start'})
    /\ (pc = "bfs" /\ q # <<>>) =>
           /\ Head(q) \in visited
           /\ Head(q) \notin Range(q')
           /\ q' = Tail(q) \o Enqueued
           /\ NoRepeat(Enqueued)
           /\ Range(Enqueued) \cap visited = {}
           /\ visited' = visited \cup Range(Enqueued)
    /\ (pc # "call" /\ pc # "bfs") => (visited' = visited /\ q' = q)

\* C13: during a bfs run visited is exactly the set of words enqueued so
\* far: a word is marked in the step that enqueues it, every waiting word is
\* marked, and no word is enqueued or dequeued twice.
C13_VisitedIsEnqueued == []QueueVisited /\ [][VisitedStep]_vars

\* C13 witness: after the second iteration two words wait, one enqueued by
\* each iteration, and four words are marked.
C13_Witness ==
    /\ pc = "bfs"
    /\ Len(q) >= 2
    /\ Cardinality(visited) >= 4
    /\ v # start

\* The words dequeued so far: the marked words that no longer wait (by C13
\* every enqueued word is marked and waits at most once).
Dequeued == visited \ Range(q)

\* The number of dequeues of a run is at most the number of words reachable
\* from start.
DequeueBound ==
    pc \in {"bfs", "walk", "done", "exit", "panic"} =>
        Cardinality(Dequeued) <= Cardinality(Reach(start))

\* The loop of bfs is left in exactly one of three ways: the goal is
\* returned, the invalid-word exit is taken, or the queue is empty.
BfsLeave ==
    (pc = "bfs" /\ pc' # "bfs") =>
        \/ pc' = "walk" /\ v' = stop /\ ptr' = stop
        \/ pc' = "exit" /\ v' # stop /\ v' \notin DOMAIN graph
        \/ pc' = "panic" /\ q = <<>>

\* C14: the loop of bfs terminates, after at most as many dequeues as there
\* are words reachable from start, in one of its three outcomes, and when the
\* goal is returned the walk back terminates with the returned path.
C14_Terminates ==
    /\ (pc = "bfs") ~> (pc \in {"walk", "exit", "panic"})
    /\ (pc = "walk") ~> (pc = "done")
    /\ []DequeueBound
    /\ [][BfsLeave]_vars

\* C14 witness: a walk of three pushes has returned after four dequeues.
C14_Witness ==
    /\ pc = "done"
    /\ Len(path) = 4
    /\ Cardinality(Dequeued) = 4

\* C15: while bfs runs, the waiting words are in non-decreasing order of
\* their distance from start, the last one is at most one edge farther than
\* the first, and every key of the parent map is exactly one edge farther
\* from start than its parent.
C15_FifoFrontier ==
    pc = "bfs" =>
        /\ \A k \in 1..(Len(q) - 1) : Dist(start, q[k]) <= Dist(start, q[k + 1])
        /\ q # <<>> => Dist(start, q[Len(q)]) <= Dist(start, q[1]) + 1
        /\ \A k \in DOMAIN parent_map :
               Dist(start, k) = Dist(start, parent_map[k]) + 1

\* C15 witness: words of two distances wait together.
C15_Witness ==
    /\ pc = "bfs"
    /\ Len(q) >= 2
    /\ Dist(start, q[1]) = 1
    /\ Dist(start, q[Len(q)]) = 2

\* C16: every word of an adjacency list is a key of the graph, so every
\* word enqueued after start has an adjacency entry and the invalid-word exit
\* names no word but start.
C16_Closure ==
    /\ \A a \in DOMAIN graph : Range(graph[a]) \subseteq DOMAIN graph
    /\ visited \ {start} \subseteq DOMAIN graph
    /\ pc = "exit" => (v = start /\ visited = {start})

\* C16 witness: bfs has dequeued a word other than start and looked its
\* connections up.
C16_Witness ==
    /\ pc = "bfs"
    /\ v # start
    /\ v # NoWord
    /\ Cardinality(visited) >= 3
    /\ q = <<>>

\* The position of a word in a dictionary of distinct words.
Index(w) == CHOOSE k \in 1..Len(dict) : dict[k] = w

\* The words of s are in strictly increasing dictionary order.
Increasing(s) == \A a, b \in DOMAIN s : a < b => Index(s[a]) < Index(s[b])

\* C17: for a dictionary of distinct words every adjacency list is in
\* strictly increasing dictionary order (so without repeats) and does not
\* hold its own word, during the construction and after it; the words one
\* bfs iteration enqueues are in dictionary order.
C17_AdjacencyOrdered ==
    /\ [](NoRepeat(dict) =>
             \A a \in DOMAIN graph : a \notin Range(graph[a]) /\ Increasing(graph[a]))
    /\ [][(NoRepeat(dict) /\ pc = "bfs" /\ q # <<>>) => Increasing(Enqueued)]_vars

\* C17 witness: bfs has enqueued, in one iteration, a neighbour in front of
\* the dequeued word in the dictionary and one behind it.
C17_Witness ==
    /\ NoRepeat(dict)
    /\ pc = "bfs"
    /\ Len(q) >= 2
    /\ v = start
    /\ Index(q[1]) < Index(v)
    /\ Index(v) < Index(q[Len(q)])

====
